---------------------------- MODULE Spec2Model ----------------------------
(***************************************************************************)
(* A model of lesion/lifio.py: the image-reading session (start, done,     *)
(* metadata, image_reader, read_image_series) and the pure helpers         *)
(* (parse_series_name, parse_xml_metadata, _get_ordering, _sanitize_czt).  *)
(*                                                                         *)
(* Conventions.  A Python string is a sequence of one-character strings.   *)
(* A Python list or tuple is a sequence; Python indices are 0-based, so    *)
(* the element with Python index i of a sequence s is s[i + 1].  A float   *)
(* is held exactly, as an integer number of 1/Unit.  None is a record of   *)
(* kind "none".  A call that raises is a record whose field raised names   *)
(* the exception; "none" means the call returned.                          *)
(***************************************************************************)
EXTENDS Integers, Sequences, FiniteSets, TLC

VARIABLES
    VM_STARTED,   \* lifio.VM_STARTED
    VM_KILLED,    \* lifio.VM_KILLED
    doneCalled,   \* history: done() has been called
    rdr,          \* the bf.ImageReader the program holds, if any
    last          \* the call in progress or just made, and its outcome

vars == <<VM_STARTED, VM_KILLED, doneCalled, rdr, last>>

(***************************************************************************)
(* Bounds of the model.                                                    *)
(***************************************************************************)
\* Largest index a c, z or t selector names.
MaxSel == 1
\* Largest size of the C, Z and T axes of a series handed to _sanitize_czt.
MaxSize == 2
\* Longest axis order, and number of axis tags, tried on _get_ordering
\* besides the permutations of the five tags.
MaxOrderLen == 3
\* Largest start and end of a time range in the series names drawn, in
\* half hours.
MaxHalf == 4
\* Most elements under the root of a metadata document.
MaxChildren == 2
\* Longest trace handed to slope, and the largest value in it.
MaxTraceLen == 4
MaxVal == 2
\* Most Z planes in a stack that is collapsed.
MaxZ == 3
\* Most series in a file handed to traces_dict.
MaxSeries == 3

(***************************************************************************)
(* Python sequence helpers.                                                *)
(***************************************************************************)
\* seq[i] with Python's negative indices (seq[-1] is the last element).
PyIndex(seq, i) == IF i >= 0 THEN seq[i + 1] ELSE seq[Len(seq) + i + 1]

\* str.find(elem) for a one-character elem: first 0-based index, or -1.
Find(str, elem) ==
    IF \E i \in 1..Len(str) : str[i] = elem
    THEN (CHOOSE i \in 1..Len(str) :
              /\ str[i] = elem
              /\ \A j \in 1..(i - 1) : str[j] # elem) - 1
    ELSE -1

\* seq[::-1]
Reverse(seq) == [i \in 1..Len(seq) |-> seq[Len(seq) + 1 - i]]

\* str.upper() on the axis letters.
UpperChar(ch) ==
    CASE ch = "t" -> "T" [] ch = "z" -> "Z" [] ch = "y" -> "Y"
      [] ch = "x" -> "X" [] ch = "c" -> "C" [] OTHER -> ch

Upper(str) == [i \in 1..Len(str) |-> UpperChar(str[i])]

\* filter(pred, seq) for the predicate "x in keep".
RECURSIVE FilterIn(_, _)
FilterIn(seq, keep) ==
    IF seq = <<>> THEN <<>>
    ELSE (IF Head(seq) \in keep THEN <<Head(seq)>> ELSE <<>>)
             \o FilterIn(Tail(seq), keep)

\* range(n)
Range(n) == [i \in 1..n |-> i - 1]


\* seq with seq[i] = v, i a Python index.
PySet(seq, i, v) ==
    [seq EXCEPT ![IF i >= 0 THEN i + 1 ELSE Len(seq) + i + 1] = v]

\* itertools.product(*lists): tuples in lexicographic order, the last
\* component varying fastest.
RECURSIVE Prepend(_, _)
Prepend(heads, rest) ==
    IF heads = <<>> THEN <<>>
    ELSE [i \in 1..Len(rest) |-> <<Head(heads)>> \o rest[i]]
             \o Prepend(Tail(heads), rest)

RECURSIVE Product(_)
Product(lists) ==
    IF lists = <<>> THEN << <<>> >>
    ELSE Prepend(Head(lists), Product(Tail(lists)))

(***************************************************************************)
(* Axis selectors (the c, z and t arguments): None, a single index or a    *)
(* list of indices.  The tag stands for Python's dynamic type; v holds the *)
(* index or indices.                                                       *)
(***************************************************************************)
SelNone == [kind |-> "none", v |-> <<>>]
SelInt(i) == [kind |-> "int", v |-> <<i>>]
SelList(l) == [kind |-> "list", v |-> l]

\* isinstance(dim, coll.Iterable)
IsIterable(dim) == dim.kind = "list"

(***************************************************************************)
(* _get_ordering(actual, desired)                                          *)
(***************************************************************************)
\* The arguments taken the wrong way round: the index in desired of each
\* element of actual.
get_ordering_inverse(actual, desired) ==
    [i \in 1..Len(desired) |->
        IF i <= Len(actual) THEN Find(desired, actual[i]) ELSE -1]

get_ordering(actual, desired) ==
    [i \in 1..Len(desired) |-> Find(actual, desired[i])]

\* [x[i] for i in ordering]
Reorder(x, ordering) ==
    [i \in 1..Len(ordering) |-> PyIndex(x, ordering[i])]

(***************************************************************************)
(* _sanitize_czt(c, z, t, shape, order)                                    *)
(***************************************************************************)
CZT == <<"C", "Z", "T">>

\* One turn of the loop over zip((c, z, t), ('C', 'Z', 'T')).  acc holds
\* the dictionary out, the list shape (edited in place) and the exception
\* raised so far.
SanitizeStep(acc, dim, label, order) ==
    IF acc.raised # "none" THEN acc
    ELSE LET dim_idx == Find(order, label) IN
         IF dim.kind = "none"
         THEN [acc EXCEPT !.out =
                   (label :> Range(PyIndex(acc.shape, dim_idx))) @@ acc.out]
         ELSE LET out1 == IF ~IsIterable(dim)
                          THEN (label :> <<dim.v[1]>>) @@ acc.out
                          ELSE acc.out
              IN  IF label \in DOMAIN out1
                  THEN [acc EXCEPT !.out = out1,
                                   !.shape = PySet(acc.shape, dim_idx,
                                                   Len(out1[label]))]
                  ELSE [acc EXCEPT !.raised = "KeyError"]

sanitize_czt(c, z, t, shape, order) ==
    LET a0 == [out |-> <<>>, shape |-> shape, raised |-> "none"]
        a1 == SanitizeStep(a0, c, "C", order)
        a2 == SanitizeStep(a1, z, "Z", order)
        a3 == SanitizeStep(a2, t, "T", order)
    IN  IF a3.raised # "none"
        THEN [raised |-> a3.raised, czt_list |-> <<>>, shape |-> a3.shape]
        ELSE LET czt_order == FilterIn(order, {"C", "Z", "T"})
                 o == get_ordering(czt_order, CZT)
                 tups == Product([i \in 1..Len(czt_order) |->
                                      a3.out[czt_order[i]]])
             IN  [raised |-> "none",
                  czt_list |-> [i \in 1..Len(tups) |->
                                   <<PyIndex(tups[i], o[1]),
                                     PyIndex(tups[i], o[2]),
                                     PyIndex(tups[i], o[3])>>],
                  shape |-> a3.shape]

(***************************************************************************)
(* int(str) and float(str) on decimal strings.                             *)
(***************************************************************************)
\* A float is held exactly as a whole number of 1/Unit: tenths and halves
\* of tenths are whole.
Unit == 4 * 5

Digits == <<"0", "1", "2", "3", "4", "5", "6", "7", "8", "9">>

IsDigit(ch) == \E d \in 1..10 : Digits[d] = ch

DigitVal(ch) == (CHOOSE d \in 1..10 : Digits[d] = ch) - 1

AllDigits(str) == Len(str) > 0 /\ \A i \in 1..Len(str) : IsDigit(str[i])

RECURSIVE DecVal(_)
DecVal(str) ==
    IF str = <<>> THEN 0
    ELSE 10 * DecVal(SubSeq(str, 1, Len(str) - 1)) + DigitVal(str[Len(str)])

RECURSIVE Pow10(_)
Pow10(k) == IF k = 0 THEN 1 ELSE 10 * Pow10(k - 1)

\* int(str): the value, or ValueError for a string that is not all digits.
PyInt(str) ==
    IF AllDigits(str) THEN [raised |-> "none", v |-> DecVal(str)]
    ELSE [raised |-> "ValueError", v |-> 0]

\* float(str) for "d+" and "d+.d+", in 1/Unit; ValueError otherwise.
PyFloat(str) ==
    LET dot == Find(str, ".") IN
    IF dot = -1
    THEN IF AllDigits(str)
         THEN [raised |-> "none", v |-> DecVal(str) * Unit]
         ELSE [raised |-> "ValueError", v |-> 0]
    ELSE LET ip == SubSeq(str, 1, dot)
             fp == SubSeq(str, dot + 2, Len(str))
         IN  IF AllDigits(ip) /\ AllDigits(fp)
             THEN [raised |-> "none",
                   v |-> DecVal(ip) * Unit
                           + (DecVal(fp) * Unit) \div Pow10(Len(fp))]
             ELSE [raised |-> "ValueError", v |-> 0]

(***************************************************************************)
(* parse_series_name(name, interval).  re.match is modelled on the three   *)
(* patterns of the function, character by character.  In each pattern     *)
(* the greedy choices are forced: a number \d+(\.\d+)? must be followed by *)
(* "h" or " ", so it takes every digit and its fraction if there is one;   *)
(* .* takes the longest run without a newline after which /Pos(\d+)_ still *)
(* matches, so the last such place in the line decides the position.       *)
(***************************************************************************)
LIT_PRE == <<"P", "r", "e">>
LIT_MARK == <<"M", "a", "r", "k">>
LIT_POS == <<"/", "P", "o", "s">>
LIT_TO == <<" ", "t", "o", " ">>

NoMatch == [matched |-> FALSE, groups |-> <<>>]

\* The literal lit stands in str at (1-based) place i.
LitAt(str, i, lit) ==
    /\ i >= 1
    /\ i + Len(lit) - 1 <= Len(str)
    /\ SubSeq(str, i, i + Len(lit) - 1) = lit

\* The place after the longest run of digits of str that starts at i.
RECURSIVE DigitsEnd(_, _)
DigitsEnd(str, i) ==
    IF i <= Len(str) /\ IsDigit(str[i]) THEN DigitsEnd(str, i + 1) ELSE i

\* /Pos(\d+)_ stands in str at place i.
PosAt(str, i) ==
    /\ LitAt(str, i, LIT_POS)
    /\ DigitsEnd(str, i + 4) > i + 4
    /\ LitAt(str, DigitsEnd(str, i + 4), <<"_">>)

\* .*/Pos(\d+)_.* from place k on: the group (\d+), or no match.
MatchPosTail(str, k) ==
    LET places == {i \in k..Len(str) :
                      /\ PosAt(str, i)
                      /\ \A j \in k..(i - 1) : str[j] # "\n"}
    IN  IF places = {} THEN NoMatch
        ELSE LET i == CHOOSE x \in places : \A y \in places : y <= x
             IN  [matched |-> TRUE,
                  groups |-> <<SubSeq(str, i + 4, DigitsEnd(str, i + 4) - 1)>>]

\* re.match(r"Pre.*/Pos(\d+)_.*", name)
MatchPre(name) ==
    IF LitAt(name, 1, LIT_PRE) THEN MatchPosTail(name, 4) ELSE NoMatch

\* re.match(r"Mark.*/Pos(\d+)_.*", name)
MatchMark(name) ==
    IF LitAt(name, 1, LIT_MARK) THEN MatchPosTail(name, 5) ELSE NoMatch

\* \d+(\.\d+)? at place i: the place after it, or 0 for no match.
NumberEnd(str, i) ==
    LET e == DigitsEnd(str, i) IN
    IF e = i THEN 0
    ELSE IF LitAt(str, e, <<".">>) /\ DigitsEnd(str, e + 1) > e + 1
         THEN DigitsEnd(str, e + 1)
         ELSE e

\* re.match(r"(\d+(\.\d+)?)h? to (\d+(\.\d+)?)h.*/Pos(\d+)_.*", name);
\* groups holds g[0], g[2] and g[4].
MatchTime(name) ==
    LET e1 == NumberEnd(name, 1)
        h1 == IF LitAt(name, e1, <<"h">>) THEN e1 + 1 ELSE e1
        s2 == h1 + 4
        e2 == NumberEnd(name, s2)
    IN  IF e1 = 0 \/ ~LitAt(name, h1, LIT_TO) THEN NoMatch
        ELSE IF e2 = 0 \/ ~LitAt(name, e2, <<"h">>) THEN NoMatch
        ELSE LET tail == MatchPosTail(name, e2 + 1) IN
             IF ~tail.matched THEN NoMatch
             ELSE [matched |-> TRUE,
                   groups |-> <<SubSeq(name, 1, e1 - 1),
                                SubSeq(name, s2, e2 - 1)>> \o tail.groups]

\* np.arange(start, stop, step) for step > 0: ceil((stop - start) / step)
\* values start + k * step.
Arange(start_, stop, step) ==
    LET n == IF stop <= start_ THEN 0
             ELSE (stop - start_ + step - 1) \div step
    IN  [k \in 1..n |-> start_ + (k - 1) * step]

\* The stop without the half interval: np.arange(t0, t1, interval).
TimeRange_nohalf(t0, t1, interval) ==
    Arange(t0, t1, interval)

\* np.arange(t0, t1 + float(interval)/2, interval)
TimeRange(t0, t1, interval) ==
    Arange(t0, t1 + interval \div 2, interval)

\* The sentinels for Pre and Mark taken one for the other.
parse_series_name_swapped(name, interval) ==
    LET m_pre == MatchPre(name)
        m_mark == MatchMark(name)
        m_time == MatchTime(name)
    IN  IF m_pre.matched
        THEN [raised |-> "none", embryo |-> PyInt(m_pre.groups[1]).v,
              times |-> <<-2 * Unit>>]
        ELSE IF m_mark.matched
        THEN [raised |-> "none", embryo |-> PyInt(m_mark.groups[1]).v,
              times |-> <<-1 * Unit>>]
        ELSE IF m_time.matched
        THEN [raised |-> "none", embryo |-> PyInt(m_time.groups[3]).v,
              times |-> TimeRange(PyFloat(m_time.groups[1]).v,
                                  PyFloat(m_time.groups[2]).v, interval)]
        ELSE [raised |-> "ValueError", embryo |-> 0, times |-> <<>>]

parse_series_name(name, interval) ==
    LET m_pre == MatchPre(name)
        m_mark == MatchMark(name)
        m_time == MatchTime(name)
    IN  IF m_pre.matched
        THEN [raised |-> "none", embryo |-> PyInt(m_pre.groups[1]).v,
              times |-> <<-1 * Unit>>]
        ELSE IF m_mark.matched
        THEN [raised |-> "none", embryo |-> PyInt(m_mark.groups[1]).v,
              times |-> <<-2 * Unit>>]
        ELSE IF m_time.matched
        THEN LET t0 == PyFloat(m_time.groups[1]).v
                 t1 == PyFloat(m_time.groups[2]).v
                 embryo == PyInt(m_time.groups[3]).v
             IN  [raised |-> "none", embryo |-> embryo,
                  times |-> TimeRange(t0, t1, interval)]
        ELSE [raised |-> "ValueError", embryo |-> 0, times |-> <<>>]

(***************************************************************************)
(* parse_xml_metadata(xml_string, array_order).  The document is held as   *)
(* the element tree ElementTree.fromstring returns: the sequence of the    *)
(* root's children, each [tag, attrib, children].  A tag is the sequence   *)
(* <<namespace, local name>>; an attribute name is <<prefix, axis>>.       *)
(***************************************************************************)
DEFAULT_DIM_ORDER == <<"t", "z", "y", "x", "c">>

\* tag.endswith(suffix)
EndsWith(tag, suffix) == Len(tag) > 0 /\ tag[Len(tag)] = suffix

\* tuple([conv(att[t]) for t in tags]): the first failing element raises.
RECURSIVE AttTuple(_, _, _, _)
AttTuple(att, prefix, axes, isFloat) ==
    IF axes = <<>> THEN [raised |-> "none", v |-> <<>>]
    ELSE LET t == <<prefix, Head(axes)>> IN
         IF t \notin DOMAIN att THEN [raised |-> "KeyError", v |-> <<>>]
         ELSE LET x == IF isFloat THEN PyFloat(att[t]) ELSE PyInt(att[t]) IN
              IF x.raised # "none" THEN [raised |-> x.raised, v |-> <<>>]
              ELSE LET rest == AttTuple(att, prefix, Tail(axes), isFloat) IN
                   IF rest.raised # "none" THEN rest
                   ELSE [raised |-> "none", v |-> <<x.v>> \o rest.v]

\* for grandchild in child: ...
RECURSIVE PixelsLoop(_, _, _, _)
PixelsLoop(acc, grandchildren, size_axes, res_axes) ==
    IF grandchildren = <<>> \/ acc.raised # "none" THEN acc
    ELSE LET g == Head(grandchildren) IN
         IF ~EndsWith(g.tag, "Pixels")
         THEN PixelsLoop(acc, Tail(grandchildren), size_axes, res_axes)
         ELSE LET sz == AttTuple(g.attrib, "Size", size_axes, FALSE)
                  rs == AttTuple(g.attrib, "PhysicalSize", res_axes, TRUE)
              IN  IF sz.raised # "none"
                  THEN [acc EXCEPT !.raised = sz.raised]
                  ELSE IF rs.raised # "none"
                  THEN [acc EXCEPT !.raised = rs.raised]
                  ELSE PixelsLoop(
                           [acc EXCEPT !.sizes = Append(@, sz.v),
                                       !.resolutions = Append(@, rs.v)],
                           Tail(grandchildren), size_axes, res_axes)

\* for child in metadata_root: ...
RECURSIVE ImageLoop(_, _, _, _)
ImageLoop(acc, children, size_axes, res_axes) ==
    IF children = <<>> \/ acc.raised # "none" THEN acc
    ELSE LET ch == Head(children) IN
         IF ~EndsWith(ch.tag, "Image")
         THEN ImageLoop(acc, Tail(children), size_axes, res_axes)
         ELSE IF <<"Name">> \notin DOMAIN ch.attrib
         THEN [acc EXCEPT !.raised = "KeyError"]
         ELSE ImageLoop(
                  PixelsLoop([acc EXCEPT !.names = Append(@, ch.attrib[<<"Name">>])],
                             ch.children, size_axes, res_axes),
                  Tail(children), size_axes, res_axes)

parse_xml_metadata(xml, array_order) ==
    LET order == Upper(array_order)
        spatial_array_order == FilterIn(order, {"X", "Y", "Z"})
        r == ImageLoop([names |-> <<>>, sizes |-> <<>>, resolutions |-> <<>>,
                        raised |-> "none"],
                       xml, order, spatial_array_order)
    IN  IF r.raised # "none"
        THEN [raised |-> r.raised, names |-> <<>>, sizes |-> <<>>,
              resolutions |-> <<>>]
        ELSE r

(***************************************************************************)
(* The image source (python-bioformats): the files on disk.  A file is the *)
(* sequence of its series; a series has a name, a native dimension order,  *)
(* a size per axis, a physical size per spatial axis and a pixel type.     *)
(***************************************************************************)
\* The series names and physical sizes of the files, as strings.
NAME_A0 == <<"P", "r", "e", " ", "l", "e", "s", "i", "o", "n", "/", "P", "o", "s", "1", "_", "S", "1">>

NAME_A1 == <<"1", "h", " ", "t", "o", " ", "2", "h", " ", "p", "S", "C", "I", "/", "P", "o", "s", "1", "_", "S", "2">>

NAME_B0 == <<"M", "a", "r", "k", "_", "1", "/", "P", "o", "s", "2", "_", "S", "1">>

RES_05 == <<"0", ".", "5">>

RES_1 == <<"1">>

RES_15 == <<"1", ".", "5">>

Axes == {"X", "Y", "Z", "C", "T"}

Disk ==
    [a |-> << [name |-> NAME_A0, order |-> <<"X", "Y", "C", "Z", "T">>,
               size |-> [X |-> 2, Y |-> 2, C |-> 2, Z |-> 2, T |-> 1],
               res |-> [X |-> RES_15, Y |-> RES_15, Z |-> RES_1],
               pixelType |-> 1],
              [name |-> NAME_A1, order |-> <<"X", "Y", "Z", "C", "T">>,
               size |-> [X |-> 3, Y |-> 2, C |-> 1, Z |-> 1, T |-> 2],
               res |-> [X |-> RES_05, Y |-> RES_05, Z |-> RES_15],
               pixelType |-> 3] >>,
     b |-> << [name |-> NAME_B0, order |-> <<"X", "Y", "C", "T", "Z">>,
               size |-> [X |-> 2, Y |-> 2, C |-> 2, Z |-> 1, T |-> 2],
               res |-> [X |-> RES_1, Y |-> RES_05, Z |-> RES_15],
               pixelType |-> 3] >>]

Filenames == DOMAIN Disk

\* str(n) for n >= 0, as the metadata document writes a size.
RECURSIVE IntStr(_)
IntStr(n) ==
    IF n < 10 THEN <<Digits[n + 1]>>
    ELSE IntStr(n \div 10) \o <<Digits[(n % 10) + 1]>>

\* bf.get_omexml_metadata(filename): one Image element per series, each
\* with one Pixels element.
get_omexml_metadata(filename) ==
    LET f == Disk[filename] IN
    [i \in 1..Len(f) |->
        [tag |-> <<"{ome}", "Image">>,
         attrib |-> (<<"Name">> :> f[i].name),
         children |->
            << [tag |-> <<"{ome}", "Pixels">>,
                attrib |->
                    [t \in ({"Size"} \X Axes) \cup ({"PhysicalSize"} \X {"X", "Y", "Z"})
                        |-> IF t[1] = "Size" THEN IntStr(f[i].size[t[2]])
                            ELSE f[i].res[t[2]]],
                children |-> <<>>] >>]]

\* getattr(reader, "getSize" + s)()
getSize(series, s) == series.size[s]

\* rdr.read(z, t, c, series): a plane outside the series is an error of the
\* image source; a plane read has shape (Y, X).
PlaneExists(series, c, z, t) ==
    /\ c \in 0..(series.size.C - 1)
    /\ z \in 0..(series.size.Z - 1)
    /\ t \in 0..(series.size.T - 1)

PlaneShape(series) == <<series.size.Y, series.size.X>>

\* BF2NP_DTYPE
BF2NP_DTYPE ==
    [i \in 0..7 |-> <<"int8", "uint8", "int16", "uint16", "int32", "uint32",
                      "float32", "double">>[i + 1]]

(***************************************************************************)
(* The session.  vm is [VM_STARTED, VM_KILLED, starts]; starts counts the   *)
(* calls of start() (so of jv.start_vm) made during one operation.         *)
(***************************************************************************)
start(vm) == [vm EXCEPT !.VM_STARTED = TRUE, !.starts = @ + 1]

done(vm) == [vm EXCEPT !.VM_KILLED = TRUE]

NoValue == [kind |-> "none"]

metadata_nokill(vm, filename, array_order) ==
    LET vm1 == IF ~vm.VM_STARTED THEN start(vm) ELSE vm
        r == parse_xml_metadata(get_omexml_metadata(filename),
                                DEFAULT_DIM_ORDER)
    IN  [vm |-> vm1, raised |-> r.raised,
         value |-> IF r.raised # "none" THEN NoValue
                   ELSE [kind |-> "metadata", names |-> r.names,
                         sizes |-> r.sizes, resolutions |-> r.resolutions]]

metadata(vm, filename, array_order) ==
    LET vm1 == IF ~vm.VM_STARTED THEN start(vm) ELSE vm IN
    IF vm1.VM_KILLED
    THEN [vm |-> vm1, raised |-> "RuntimeError", value |-> NoValue]
    ELSE LET md_string == get_omexml_metadata(filename)
             r == parse_xml_metadata(md_string, DEFAULT_DIM_ORDER)
         IN  [vm |-> vm1, raised |-> r.raised,
              value |-> IF r.raised # "none" THEN NoValue
                        ELSE [kind |-> "metadata", names |-> r.names,
                              sizes |-> r.sizes,
                              resolutions |-> r.resolutions]]

\* filelike is [kind |-> "path", name |-> f], a filename, or
\* [kind |-> "reader", rdr |-> r], an open bf.ImageReader.
PathOf(f) == [kind |-> "path", name |-> f]
ReaderOf(r) == [kind |-> "reader", rdr |-> r]

\* bf.ImageReader(path): a new reader, on its first series.
ImageReaderNew(path) == [kind |-> "reader", file |-> path, series |-> 0]

image_reader(vm, filelike) ==
    LET vm1 == IF ~vm.VM_STARTED THEN start(vm) ELSE vm IN
    IF vm1.VM_KILLED
    THEN [vm |-> vm1, raised |-> "RuntimeError", value |-> NoValue]
    ELSE [vm |-> vm1, raised |-> "none",
          value |-> IF filelike.kind = "reader" THEN filelike.rdr
                    ELSE ImageReaderNew(filelike.name)]

(***************************************************************************)
(* read_image_series(filelike, series_id, t, z, c, desired_order)          *)
(***************************************************************************)
IdxInt(i) == [kind |-> "int", v |-> i]
IdxSlice == [kind |-> "slice"]

\* The index list built for one (c, z, t) triple.
Indices(desired_order, c, z, t) ==
    [k \in 1..Len(desired_order) |->
        CASE desired_order[k] = "C" -> IdxInt(c)
          [] desired_order[k] = "Z" -> IdxInt(z)
          [] desired_order[k] = "T" -> IdxInt(t)
          [] OTHER -> IdxSlice]

\* numpy: an integer index i on an axis of size n needs -n <= i < n.
InBounds(indices, shape) ==
    \A k \in 1..Len(indices) :
        indices[k].kind = "int" =>
            /\ indices[k].v < shape[k]
            /\ indices[k].v >= -shape[k]

\* The shape of image[indices]: the axes indexed by slice(None).
RECURSIVE SliceShape(_, _)
SliceShape(indices, shape) ==
    IF indices = <<>> THEN <<>>
    ELSE (IF Head(indices).kind = "slice" THEN <<Head(shape)>> ELSE <<>>)
             \o SliceShape(Tail(indices), Tail(shape))

\* numpy: a value of shape val can be assigned to a target of shape tgt.
RECURSIVE Broadcasts(_, _)
Broadcasts(val, tgt) ==
    IF Len(val) > Len(tgt)
    THEN Head(val) = 1 /\ Broadcasts(Tail(val), tgt)
    ELSE \A i \in 1..Len(val) :
             LET v == val[Len(val) + 1 - i]
                 g == tgt[Len(tgt) + 1 - i]
             IN  v = g \/ v = 1

\* for c, z, t in czt_list: image[indices] = rdr.read(...)
RECURSIVE ReadLoop(_, _, _, _, _, _)
ReadLoop(acc, czt_list, desired_order, new_shape, series, series_id) ==
    IF czt_list = <<>> \/ acc.raised # "none" THEN acc
    ELSE LET c == Head(czt_list)[1]
             z == Head(czt_list)[2]
             t == Head(czt_list)[3]
             indices == Indices(desired_order, c, z, t)
             acc1 == [acc EXCEPT !.reads =
                          Append(@, [c |-> c, z |-> z, t |-> t,
                                     series |-> series_id])]
         IN  IF ~PlaneExists(series, c, z, t)
             THEN [acc1 EXCEPT !.raised = "ReadError"]
             ELSE IF ~InBounds(indices, new_shape)
             THEN [acc1 EXCEPT !.raised = "IndexError"]
             ELSE IF ~Broadcasts(PlaneShape(series),
                                 SliceShape(indices, new_shape))
             THEN [acc1 EXCEPT !.raised = "ValueError"]
             ELSE ReadLoop([acc1 EXCEPT !.stores = Append(@, indices)],
                           Tail(czt_list), desired_order, new_shape,
                           series, series_id)

NoImage == [kind |-> "none"]

\* The result of a call that raises before the reading loop.
Raises(vm, exc, reader) ==
    [vm |-> vm, raised |-> exc, rdr |-> reader, reads |-> <<>>,
     stores |-> <<>>, value |-> NoImage]

\* not 0 <= series_id < total_series
SeriesIdInvalid_upper(series_id, total_series) ==
    ~(0 <= series_id /\ series_id <= total_series)

SeriesIdInvalid(series_id, total_series) ==
    ~(0 <= series_id /\ series_id < total_series)

\* desired_order is None or a string.
OrderNone == [kind |-> "none", v |-> <<>>]
OrderStr(str) == [kind |-> "str", v |-> str]

read_image_series(vm, filelike, series_id, t, z, c, desired_order) ==
    LET ir == image_reader(vm, filelike) IN
    IF ir.raised # "none"
    THEN Raises(ir.vm, ir.raised, [kind |-> "none"])
    ELSE
    LET reader0 == ir.value
        total_series == Len(Disk[reader0.file])
    IN
    IF SeriesIdInvalid(series_id, total_series)
    THEN Raises(ir.vm, "ValueError", reader0)
    ELSE
    LET reader == [reader0 EXCEPT !.series = series_id] IN
    \* reader.setSeries(series_id) on a series the file does not hold is an
    \* error of the image source.
    IF series_id + 1 \notin DOMAIN Disk[reader.file]
    THEN Raises(ir.vm, "JavaException", reader)
    ELSE
    LET series == Disk[reader.file][series_id + 1]
        order == series.order
        old_shape0 == [i \in 1..Len(order) |-> getSize(series, order[i])]
        san == sanitize_czt(c, z, t, old_shape0, order)
    IN
    IF san.raised # "none"
    THEN Raises(ir.vm, san.raised, reader)
    ELSE
    LET old_shape == san.shape
        desired == IF desired_order.kind # "none" THEN Upper(desired_order.v)
                   ELSE Reverse(order)
        new_shape == IF desired_order.kind # "none"
                     THEN Reorder(old_shape, get_ordering(order, desired))
                     ELSE Reverse(old_shape)
    IN
    IF series.pixelType \notin DOMAIN BF2NP_DTYPE
    THEN Raises(ir.vm, "KeyError", reader)
    ELSE
    LET acc == ReadLoop([reads |-> <<>>, stores |-> <<>>, raised |-> "none"],
                        san.czt_list, desired, new_shape, series, series_id)
    IN  [vm |-> ir.vm, raised |-> acc.raised, rdr |-> reader,
         reads |-> acc.reads, stores |-> acc.stores,
         value |-> IF acc.raised # "none" THEN NoImage
                   ELSE [kind |-> "image", shape |-> new_shape,
                         order |-> desired,
                         dtype |-> BF2NP_DTYPE[series.pixelType]]]

(***************************************************************************)
(* The session specification: the calls a program makes on the module, in  *)
(* any order.  A call is made when the program is between calls (last is   *)
(* Idle); last then records the call: its arguments, the state before it   *)
(* and what it did, until the program takes the result and goes on         *)
(* (Resume).                                                               *)
(***************************************************************************)
Vm == [VM_STARTED |-> VM_STARTED, VM_KILLED |-> VM_KILLED, starts |-> 0]

Pre ==
    [VM_STARTED |-> VM_STARTED, VM_KILLED |-> VM_KILLED,
     doneCalled |-> doneCalled, rdr |-> rdr]

NoReader == [kind |-> "none"]

Idle == [op |-> "idle"]

\* The axis orders a caller passes as array_order or desired_order.
CallerOrders ==
    { <<"t", "z", "y", "x", "c">>, <<"t", "z", "c", "y", "x">>,
      <<"C", "T", "Z", "Y", "X">> }

\* The selectors a caller passes as c, z or t.
Selectors ==
    {SelNone} \cup {SelInt(i) : i \in 0..MaxSel}
              \cup {SelList(Range(MaxSel + 1))}

\* The file arguments: a path, or the reader the program holds.
Filelikes ==
    {PathOf(f) : f \in Filenames}
        \cup (IF rdr.kind = "reader" THEN {ReaderOf(rdr)} ELSE {})

Init ==
    /\ VM_STARTED = FALSE
    /\ VM_KILLED = FALSE
    /\ doneCalled = FALSE
    /\ rdr = NoReader
    /\ last = Idle

Start ==
    /\ last = Idle
    /\ LET vm == start(Vm) IN
       /\ VM_STARTED' = vm.VM_STARTED
       /\ VM_KILLED' = vm.VM_KILLED
       /\ last' = [op |-> "start", pre |-> Pre, starts |-> vm.starts]
    /\ UNCHANGED <<doneCalled, rdr>>

Done ==
    /\ last = Idle
    /\ LET vm == done(Vm) IN
       /\ VM_STARTED' = vm.VM_STARTED
       /\ VM_KILLED' = vm.VM_KILLED
       /\ last' = [op |-> "done", pre |-> Pre, starts |-> vm.starts]
    /\ doneCalled' = TRUE
    /\ UNCHANGED rdr

\* The state after a call of metadata whose outcome is r.
MetadataOutcome(filename, array_order, r) ==
    /\ VM_STARTED' = r.vm.VM_STARTED
    /\ VM_KILLED' = r.vm.VM_KILLED
    /\ last' = [op |-> "metadata", pre |-> Pre, starts |-> r.vm.starts,
                args |-> [filename |-> filename,
                          array_order |-> array_order],
                raised |-> r.raised, value |-> r.value]
    /\ UNCHANGED <<doneCalled, rdr>>

Metadata ==
    /\ last = Idle
    /\ \E filename \in Filenames, array_order \in CallerOrders :
        MetadataOutcome(filename, array_order,
                        metadata(Vm, filename, array_order))

\* rdr = image_reader(filelike): the program keeps the reader it gets.
ImageReaderOutcome(filelike, r) ==
    /\ VM_STARTED' = r.vm.VM_STARTED
    /\ VM_KILLED' = r.vm.VM_KILLED
    /\ rdr' = IF r.raised = "none" THEN r.value ELSE rdr
    /\ last' = [op |-> "image_reader", pre |-> Pre,
                starts |-> r.vm.starts,
                args |-> [filelike |-> filelike],
                raised |-> r.raised, value |-> r.value]
    /\ UNCHANGED doneCalled

ImageReader ==
    /\ last = Idle
    /\ \E filelike \in Filelikes :
        ImageReaderOutcome(filelike, image_reader(Vm, filelike))

\* read_image_series on a path or on the reader the program holds; setSeries
\* on that reader stays in effect after the call.
ReadImageSeriesOutcome(args, r) ==
    /\ VM_STARTED' = r.vm.VM_STARTED
    /\ VM_KILLED' = r.vm.VM_KILLED
    /\ rdr' = IF args.filelike.kind = "reader" /\ r.rdr.kind # "none"
              THEN r.rdr ELSE rdr
    /\ last' = [op |-> "read_image_series", pre |-> Pre,
                starts |-> r.vm.starts, args |-> args,
                raised |-> r.raised, rdr |-> r.rdr, reads |-> r.reads,
                stores |-> r.stores, value |-> r.value]
    /\ UNCHANGED doneCalled

ReadImageSeries ==
    /\ last = Idle
    /\ \E filelike \in Filelikes, series_id \in -1..2,
       t \in Selectors, z \in Selectors, c \in Selectors,
       desired_order \in {OrderNone} \cup {OrderStr(o) : o \in CallerOrders} :
        ReadImageSeriesOutcome(
            [filelike |-> filelike, series_id |-> series_id,
             t |-> t, z |-> z, c |-> c, desired_order |-> desired_order],
            read_image_series(Vm, filelike, series_id, t, z, c,
                              desired_order))

\* The program takes the result (or catches the exception) and goes on.
Resume ==
    /\ last # Idle
    /\ last' = Idle
    /\ UNCHANGED <<VM_STARTED, VM_KILLED, doneCalled, rdr>>

Next ==
    Start \/ Done \/ Metadata \/ ImageReader \/ ReadImageSeries \/ Resume

Spec == Init /\ [][Next]_vars

(***************************************************************************)
(* Claims about the session, checked under Spec.                           *)
(***************************************************************************)
SessionCall == last.op \in {"metadata", "image_reader"}

\* C1: every metadata() or image_reader() call made after done() fails with
\* the RuntimeError of the killed session and returns no metadata and no
\* reader, whether or not the session had been started before done().
C1_FailsAfterDone ==
    (SessionCall /\ last.pre.doneCalled) =>
        /\ last.raised = "RuntimeError"
        /\ last.value = NoValue
        /\ rdr = last.pre.rdr

\* A call after a done() that found the session never started.
C1_Witness ==
    /\ SessionCall
    /\ last.pre.doneCalled
    /\ ~last.pre.VM_STARTED
    /\ last.raised = "RuntimeError"

\* C2: no metadata() or image_reader() call made after done() calls start(),
\* also when done() was called on a session that had never been started.
C2_NoStartAfterDone ==
    (SessionCall /\ last.pre.doneCalled) => last.starts = 0

\* The file and the series count a read_image_series call is about.
CallFile(args) ==
    IF args.filelike.kind = "reader" THEN args.filelike.rdr.file
    ELSE args.filelike.name

OutOfRange(args) ==
    ~(args.series_id \in 0..(Len(Disk[CallFile(args)]) - 1))

\* The reader a call works on, as it is before the call.
ReaderBefore(args) ==
    IF args.filelike.kind = "reader" THEN args.filelike.rdr
    ELSE ImageReaderNew(args.filelike.name)

\* C5 as stated: a series_id outside [0, seriesCount) fails with ValueError
\* before any plane is read and before the reader's series is changed.
C5_Original ==
    (last.op = "read_image_series" /\ OutOfRange(last.args)) =>
        /\ last.raised = "ValueError"
        /\ last.reads = <<>>
        /\ rdr = last.pre.rdr

\* C5 (amended): a series_id outside [0, seriesCount) fails before any plane
\* is read and before the reader's series is changed: with ValueError when
\* the session is available, with the RuntimeError of the killed session
\* after done().
C5_InvalidSeriesId ==
    (last.op = "read_image_series" /\ OutOfRange(last.args)) =>
        /\ last.reads = <<>>
        /\ last.stores = <<>>
        /\ rdr = last.pre.rdr
        /\ IF last.pre.VM_KILLED
           THEN last.raised = "RuntimeError" /\ last.rdr = NoReader
           ELSE last.raised = "ValueError"
                    /\ last.rdr = ReaderBefore(last.args)

\* An invalid id on a reader that stands on its second series.
C5_Witness ==
    /\ last.op = "read_image_series"
    /\ OutOfRange(last.args)
    /\ last.raised = "ValueError"
    /\ last.args.filelike.kind = "reader"
    /\ last.args.filelike.rdr.series = 1
    /\ rdr.series = 1

\* C10: metadata(filename, array_order = o) returns the sizes and the
\* resolutions in the order o, as parse_xml_metadata gives them for o.
C10_MetadataOrder ==
    (last.op = "metadata" /\ last.raised = "none") =>
        LET want == parse_xml_metadata(
                        get_omexml_metadata(last.args.filename),
                        last.args.array_order)
        IN  /\ last.value.sizes = want.sizes
            /\ last.value.resolutions = want.resolutions

(***************************************************************************)
(* _get_ordering on its own: Init draws the two orders, GetOrdering        *)
(* applies the function.                                                   *)
(***************************************************************************)
AxisTags == <<"T", "Z", "Y", "X", "C">>

\* All sequences over S of length at most n.
RECURSIVE SeqsUpTo(_, _)
SeqsUpTo(S, n) ==
    IF n = 0 THEN {<<>>}
    ELSE LET shorter == SeqsUpTo(S, n - 1) IN
         shorter \cup {Append(q, x) : q \in shorter, x \in S}

NoRepeats(str) ==
    \A i, j \in 1..Len(str) : str[i] = str[j] => i = j

Elems(str) == {str[i] : i \in 1..Len(str)}

\* The permutations of the five axis tags.
AxisOrders ==
    {o \in [1..5 -> Elems(AxisTags)] : NoRepeats(o)}

\* Every short string over the first tags: these include repeated and
\* missing tags.
ShortOrders ==
    SeqsUpTo({AxisTags[i] : i \in 1..MaxOrderLen}, MaxOrderLen)

SessionIdle ==
    /\ VM_STARTED = FALSE
    /\ VM_KILLED = FALSE
    /\ doneCalled = FALSE
    /\ rdr = NoReader

InitOrdering ==
    /\ SessionIdle
    /\ last \in {[op |-> "call", fn |-> "_get_ordering",
                  actual |-> a, desired |-> d] :
                     <<a, d>> \in (AxisOrders \X AxisOrders)
                                     \cup (ShortOrders \X ShortOrders)}

GetOrdering ==
    /\ last.op = "call"
    /\ last.fn = "_get_ordering"
    /\ last' = [op |-> "return", fn |-> "_get_ordering",
                actual |-> last.actual, desired |-> last.desired,
                raised |-> "none",
                ordering |-> get_ordering(last.actual, last.desired)]
    /\ UNCHANGED <<VM_STARTED, VM_KILLED, doneCalled, rdr>>

SpecOrdering == InitOrdering /\ [][GetOrdering]_vars

Returned(fn) == last.op = "return" /\ last.fn = fn

\* Two orders over the same tag set, no tag repeated.
SamePermutation(a, d) ==
    NoRepeats(a) /\ NoRepeats(d) /\ Elems(a) = Elems(d)

\* C6: for orders A and B that are permutations of the same tags,
\* p = _get_ordering(A, B) has B[i] = A[p[i]] for every i, and reordering
\* by _get_ordering(A, B) and then by _get_ordering(B, A) gives back the
\* original, whatever is reordered (the tags, the axis numbers).
C6_OrderingRoundTrip ==
    (Returned("_get_ordering") /\ SamePermutation(last.actual, last.desired))
    =>  LET A == last.actual
            B == last.desired
            p == last.ordering
            q == get_ordering(B, A)
        IN  /\ last.raised = "none"
            /\ Len(p) = Len(B)
            /\ \A i \in 1..Len(B) : B[i] = PyIndex(A, p[i])
            /\ Reorder(A, p) = B
            /\ Reorder(Reorder(A, p), q) = A
            /\ Reorder(Reorder(Range(Len(A)), p), q) = Range(Len(A))

\* A permutation of the five tags that is not its own inverse.
C6_Witness ==
    /\ Returned("_get_ordering")
    /\ last.actual = <<"X", "Y", "C", "Z", "T">>
    /\ last.desired = <<"T", "X", "Y", "Z", "C">>
    /\ last.ordering = <<4, 0, 1, 3, 2>>

\* C7: _get_ordering fails with a configuration error, and returns no
\* ordering, when a tag of one order is absent from the other or an order
\* repeats a tag.
C7_OrderingRejects ==
    (Returned("_get_ordering") /\ ~SamePermutation(last.actual, last.desired))
    => last.raised # "none"

(***************************************************************************)
(* _sanitize_czt on its own: Init draws the selectors, the native shape    *)
(* and the native order, SanitizeCzt applies the function.                 *)
(***************************************************************************)
\* The dimension orders of the image source: XY, then C, Z and T in any
\* order.
NativeOrders ==
    {<<"X", "Y">> \o o : o \in {q \in [1..3 -> {"C", "Z", "T"}] : NoRepeats(q)}}

\* The native shapes, as [axis -> size].
NativeSizes ==
    {[a \in Axes |-> IF a \in {"X", "Y"} THEN 2 ELSE sz[a]] :
        sz \in [{"C", "Z", "T"} -> 1..MaxSize]}

InitSanitize ==
    /\ SessionIdle
    /\ last \in {[op |-> "call", fn |-> "_sanitize_czt",
                  c |-> c, z |-> z, t |-> t,
                  shape |-> [i \in 1..5 |-> sz[order[i]]], order |-> order] :
                     c \in Selectors, z \in Selectors, t \in Selectors,
                     sz \in NativeSizes, order \in NativeOrders}

SanitizeCzt ==
    /\ last.op = "call"
    /\ last.fn = "_sanitize_czt"
    /\ LET r == sanitize_czt(last.c, last.z, last.t, last.shape, last.order)
       IN  last' = [op |-> "return", fn |-> "_sanitize_czt",
                    c |-> last.c, z |-> last.z, t |-> last.t,
                    shape |-> last.shape, order |-> last.order,
                    raised |-> r.raised, czt_list |-> r.czt_list,
                    new_shape |-> r.shape]
    /\ UNCHANGED <<VM_STARTED, VM_KILLED, doneCalled, rdr>>

SpecSanitize == InitSanitize /\ [][SanitizeCzt]_vars

\* The indices a selector selects on an axis of the given native size.
Selected(sel, size) ==
    IF sel.kind = "none" THEN 0..(size - 1) ELSE Elems(sel.v)

SelectedCount(sel, size) ==
    IF sel.kind = "none" THEN size ELSE Len(sel.v)

\* C8: for every native shape and order and every selector on c, z and t
\* (None, an index, a list of indices), _sanitize_czt returns a shape in
\* which a restricted axis has the number of selected indices and the
\* other axes keep their size, and the full cartesian product of the
\* selected (c, z, t) triples, each once.
C8_SanitizeCzt ==
    Returned("_sanitize_czt") =>
        LET size(a) == PyIndex(last.shape, Find(last.order, a))
            sel(a) == CASE a = "C" -> last.c [] a = "Z" -> last.z
                        [] OTHER -> last.t
        IN  /\ last.raised = "none"
            /\ \A i \in 1..Len(last.order) :
                   last.new_shape[i] =
                       IF last.order[i] \in {"C", "Z", "T"}
                       THEN SelectedCount(sel(last.order[i]),
                                          size(last.order[i]))
                       ELSE last.shape[i]
            /\ Elems(last.czt_list) =
                   Selected(last.c, size("C")) \X Selected(last.z, size("Z"))
                       \X Selected(last.t, size("T"))
            /\ NoRepeats(last.czt_list)

(***************************************************************************)
(* parse_series_name on its own: Init draws the name and the interval,     *)
(* ParseSeriesName applies the function.  A name is drawn as head, middle, *)
(* position part and tail, each from a set that holds the forms the        *)
(* patterns accept and near misses of them.                                *)
(***************************************************************************)
\* The decimal string of h half hours: "1", "1.5", ...
NumStr(h) ==
    IF h % 2 = 0 THEN IntStr(h \div 2)
    ELSE IntStr(h \div 2) \o <<".", "5">>

FixedHeads ==
    { <<"P", "r", "e">>,
      <<"P", "r", "e", " ", "l", "e", "s", "i", "o", "n", " ", "2", "x">>,
      <<"M", "a", "r", "k">>,
      <<"M", "a", "r", "k", "_", "a", "n", "d", "_", "F", "i", "n", "d", "_", "0", "0", "1">>,
      <<"x", "P", "r", "e">>,
      <<"p", "r", "e">>,
      <<>>,
      <<"P", "r", "e", "M", "a", "r", "k">>,
      <<"6", "3", " ", "t", "o", " ", "7", "2", ".", "5", "h", "p", "S", "C", "I">>,
      <<"2", "2", ".", "5", "h", " ", "t", "o", " ", "4", "1", "h", " ", "p", "S", "C", "I">>,
      <<"1", ".", " ", "t", "o", " ", "2", "h">>,
      <<"1", " ", "t", "o", " ", "2">>,
      <<"1", " ", "t", "o", " ", "2", "h", " ", "P", "r", "e">>,
      <<" ", "1", " ", "t", "o", " ", "2", "h">>,
      <<"1", ".", "2", "5", " ", "t", "o", " ", "2", "h">>,
      <<"1", " ", "t", "o", "2", "h">> }

\* "<start>[h] to <end>h"
RangeHeads ==
    {NumStr(a) \o hopt \o LIT_TO \o NumStr(b) \o <<"h">> :
        a \in 0..MaxHalf, b \in 0..MaxHalf, hopt \in {<<>>, <<"h">>}}

Middles ==
    { <<>>,
      <<" ", "x">>,
      <<"/", "P", "o", "s", "7", "_">>,
      <<"\n">> }

PosParts ==
    { <<"/", "P", "o", "s", "0", "0", "8", "_">>,
      <<"/", "P", "o", "s", "1", "9", "_">>,
      <<"/", "P", "o", "s", "_">>,
      <<"/", "P", "o", "s", "4">>,
      <<"P", "o", "s", "3", "_">>,
      <<"/", "p", "o", "s", "5", "_">> }

Tails ==
    { <<"S", "0", "0", "1">>,
      <<>>,
      <<"/", "P", "o", "s", "2", "_", "S">> }

\* The names of the function's doctests.
DOC_NAME0 == <<"P", "r", "e", " ", "l", "e", "s", "i", "o", "n", " ", "2", "x", "/", "P", "o", "s", "0", "0", "8", "_", "S", "0", "0", "1">>
DOC_NAME1 == <<"M", "a", "r", "k", "_", "a", "n", "d", "_", "F", "i", "n", "d", "_", "0", "0", "1", "/", "P", "o", "s", "0", "1", "9", "_", "S", "0", "0", "1">>
DOC_NAME2 == <<"2", "2", ".", "5", "h", " ", "t", "o", " ", "4", "1", "h", " ", "p", "S", "C", "I", "/", "P", "o", "s", "0", "1", "3", "_", "S", "0", "0", "1">>
DOC_NAME3 == <<"6", "3", " ", "t", "o", " ", "7", "2", ".", "5", "h", "p", "S", "C", "I", "/", "P", "o", "s", "0", "0", "4", "_", "S", "0", "0", "1">>

SeriesNames ==
    {h \o m \o q \o w :
        h \in FixedHeads \cup RangeHeads, m \in Middles, q \in PosParts,
        w \in Tails}
        \cup {DOC_NAME0, DOC_NAME1, DOC_NAME2, DOC_NAME3}

\* interval: 0.5 (the default) and 1.
Intervals == {Unit \div 2, Unit}

InitParseName ==
    /\ SessionIdle
    /\ last \in {[op |-> "call", fn |-> "parse_series_name",
                  name |-> n, interval |-> d] :
                     n \in SeriesNames, d \in Intervals}

ParseSeriesName ==
    /\ last.op = "call"
    /\ last.fn = "parse_series_name"
    /\ LET r == parse_series_name(last.name, last.interval)
       IN  last' = [op |-> "return", fn |-> "parse_series_name",
                    name |-> last.name, interval |-> last.interval,
                    raised |-> r.raised, embryo |-> r.embryo,
                    times |-> r.times]
    /\ UNCHANGED <<VM_STARTED, VM_KILLED, doneCalled, rdr>>

SpecParseName == InitParseName /\ [][ParseSeriesName]_vars

\* C3: the three patterns are tried in the order Pre, Mark, time range and
\* the first match decides: Pre gives (digits after /Pos, [-1.0]), Mark
\* gives (digits after /Pos, [-2.0]), a time range gives the position and
\* the range sequence, and a name matching none raises ValueError and
\* returns nothing.  The doctests of the function are instances.
C3_ParsePrecedence ==
    Returned("parse_series_name") =>
        LET m_pre == MatchPre(last.name)
            m_mark == MatchMark(last.name)
            m_time == MatchTime(last.name)
        IN  /\ m_pre.matched =>
                   /\ last.raised = "none"
                   /\ last.embryo = DecVal(m_pre.groups[1])
                   /\ last.times = <<-1 * Unit>>
            /\ (~m_pre.matched /\ m_mark.matched) =>
                   /\ last.raised = "none"
                   /\ last.embryo = DecVal(m_mark.groups[1])
                   /\ last.times = <<-2 * Unit>>
            /\ (~m_pre.matched /\ ~m_mark.matched /\ m_time.matched) =>
                   /\ last.raised = "none"
                   /\ last.embryo = DecVal(m_time.groups[3])
                   /\ Len(last.times) > 0 =>
                          last.times[1] = PyFloat(m_time.groups[1]).v
                   /\ \A i \in 2..Len(last.times) :
                          last.times[i] = last.times[i - 1] + last.interval
            /\ (~m_pre.matched /\ ~m_mark.matched /\ ~m_time.matched) =>
                   /\ last.raised = "ValueError"
                   /\ last.times = <<>>
            /\ last.name = DOC_NAME0 =>
                   last.embryo = 8 /\ last.times = <<-1 * Unit>>
            /\ last.name = DOC_NAME1 =>
                   last.embryo = 19 /\ last.times = <<-2 * Unit>>
            /\ (last.name = DOC_NAME2 /\ last.interval = Unit \div 2) =>
                   /\ last.embryo = 13
                   /\ SubSeq(last.times, 1, 5) =
                          <<450, 460, 470, 480, 490>>
            /\ (last.name = DOC_NAME3 /\ last.interval = Unit) =>
                   /\ last.embryo = 4
                   /\ SubSeq(last.times, 1, 5) =
                          <<1260, 1280, 1300, 1320, 1340>>

\* A Pre name with three /Pos parts: the last one gives the position.
C3_Witness ==
    /\ Returned("parse_series_name")
    /\ last.name = <<"P", "r", "e", "/", "P", "o", "s", "7", "_", "/", "P", "o", "s", "1", "9", "_", "/", "P", "o", "s", "2", "_", "S">>
    /\ last.raised = "none"
    /\ last.embryo = 2
    /\ last.times = <<-1 * Unit>>

\* The start, end and interval of a returned time-range name.
IsRange == Returned("parse_series_name") /\ MatchTime(last.name).matched

RangeStart == PyFloat(MatchTime(last.name).groups[1]).v

RangeEnd == PyFloat(MatchTime(last.name).groups[2]).v

\* The values s + k*d, k = 0, 1, ..., that satisfy P, ascending, when they
\* are the first n values.
FirstValues(s, d, n) == [i \in 1..n |-> s + (i - 1) * d]

\* C4 as stated: a time-range name gives exactly the values s + k*d with
\* s + k*d <= e + d/2, ascending.
C4_Original ==
    IsRange =>
        LET s == RangeStart
            e == RangeEnd
            d == last.interval
            ks == {k \in 0..(e + d) : s + k * d <= e + d \div 2}
        IN  last.times = FirstValues(s, d, Cardinality(ks))

\* C4 (amended): a time-range name gives exactly the values s + k*d with
\* s + k*d < e + d/2, ascending: e is included when e >= s and e - s is a
\* multiple of d; a value equal to e + d/2 is not.
C4_TimeRange ==
    IsRange =>
        LET s == RangeStart
            e == RangeEnd
            d == last.interval
            ks == {k \in 0..(e + d) : s + k * d < e + d \div 2}
        IN  /\ last.raised = "none"
            /\ last.times = FirstValues(s, d, Cardinality(ks))
            /\ (e >= s /\ (e - s) % d = 0) =>
                   last.times[Len(last.times)] = e
            /\ \A i \in 1..Len(last.times) :
                   last.times[i] # e + d \div 2

\* "63 to 72.5h" with interval 1: 63, 64, ..., 72, and not 73 = 72.5 + 0.5.
C4_Witness ==
    /\ IsRange
    /\ last.name = DOC_NAME3
    /\ last.interval = Unit
    /\ Len(last.times) = 10
    /\ last.times[10] = 72 * Unit

(***************************************************************************)
(* parse_xml_metadata on its own: Init draws the document and the order,   *)
(* ParseXmlMetadata applies the function.  An Image element is drawn with  *)
(* none, one or two elements under it, Pixels or other.                    *)
(***************************************************************************)
\* A Pixels element with the given sizes and physical sizes.
PixelsEl(size, res) ==
    [tag |-> <<"{ome}", "Pixels">>,
     attrib |-> [t \in ({"Size"} \X Axes) \cup ({"PhysicalSize"} \X {"X", "Y", "Z"})
                    |-> IF t[1] = "Size" THEN IntStr(size[t[2]])
                        ELSE res[t[2]]],
     children |-> <<>>]

PIXELS_1 ==
    PixelsEl([T |-> 1, Z |-> 2, Y |-> 3, X |-> 4, C |-> 5],
             [X |-> RES_05, Y |-> RES_1, Z |-> RES_15])

PIXELS_2 ==
    PixelsEl([T |-> 6, Z |-> 7, Y |-> 8, X |-> 9, C |-> 10],
             [X |-> RES_15, Y |-> RES_05, Z |-> RES_1])

\* A Pixels element without its SizeC attribute.
PIXELS_BAD ==
    [PIXELS_1 EXCEPT !.attrib =
        [t \in (DOMAIN PIXELS_1.attrib) \ {<<"Size", "C">>} |->
            PIXELS_1.attrib[t]]]

\* An element that is neither Image nor Pixels.
OTHER_EL == [tag |-> <<"{ome}", "Instrument">>, attrib |-> <<>>,
             children |-> <<>>]

ImageEl(name, grandchildren) ==
    [tag |-> <<"{ome}", "Image">>, attrib |-> (<<"Name">> :> name),
     children |-> grandchildren]

RootChildren ==
    {ImageEl(n, g) : n \in {NAME_A0, NAME_B0},
                     g \in SeqsUpTo({PIXELS_1, PIXELS_2, OTHER_EL}, 2)}
        \cup {ImageEl(NAME_A1, <<PIXELS_BAD>>), OTHER_EL,
              [ImageEl(NAME_A1, <<PIXELS_1>>) EXCEPT !.attrib = <<>>]}

XmlOrders == {DEFAULT_DIM_ORDER, <<"x", "y", "z", "c", "t">>}

InitXml ==
    /\ SessionIdle
    /\ last \in {[op |-> "call", fn |-> "parse_xml_metadata",
                  xml |-> x, array_order |-> o] :
                     x \in SeqsUpTo(RootChildren, MaxChildren),
                     o \in XmlOrders}

ParseXmlMetadata ==
    /\ last.op = "call"
    /\ last.fn = "parse_xml_metadata"
    /\ LET r == parse_xml_metadata(last.xml, last.array_order)
       IN  last' = [op |-> "return", fn |-> "parse_xml_metadata",
                    xml |-> last.xml, array_order |-> last.array_order,
                    raised |-> r.raised, names |-> r.names,
                    sizes |-> r.sizes, resolutions |-> r.resolutions]
    /\ UNCHANGED <<VM_STARTED, VM_KILLED, doneCalled, rdr>>

SpecXml == InitXml /\ [][ParseXmlMetadata]_vars

\* The Image elements of a document, in document order.
RECURSIVE ImagesOf(_)
ImagesOf(xml) ==
    IF xml = <<>> THEN <<>>
    ELSE (IF EndsWith(Head(xml).tag, "Image") THEN <<Head(xml)>> ELSE <<>>)
             \o ImagesOf(Tail(xml))

\* The size tuples of the Pixels elements of an Image element.
PixelSizesOf(image, array_order) ==
    {AttTuple(image.children[i].attrib, "Size", Upper(array_order), FALSE).v :
        i \in {j \in 1..Len(image.children) :
                   EndsWith(image.children[j].tag, "Pixels")}}

\* C9: the three lists returned have equal length, one entry per Image
\* element in document order, and names[i] and sizes[i] describe the same
\* Image element; also for an Image element with no Pixels child or with
\* more than one.
C9_ParallelLists ==
    (Returned("parse_xml_metadata") /\ last.raised = "none") =>
        LET images == ImagesOf(last.xml) IN
        /\ Len(last.names) = Len(images)
        /\ Len(last.sizes) = Len(images)
        /\ Len(last.resolutions) = Len(images)
        /\ \A i \in 1..Len(images) :
               /\ last.names[i] = images[i].attrib[<<"Name">>]
               /\ last.sizes[i] \in PixelSizesOf(images[i], last.array_order)

(***************************************************************************)
(* The stores of read_image_series, checked under Spec.                    *)
(***************************************************************************)
\* C15: in read_image_series every plane read for a triple (c, z, t) is
\* stored at an index inside the allocated array: on the C, Z and T axes
\* the index is smaller than the size of that axis in the new shape, also
\* when a selector restricts an axis to an index other than 0.
C15_StoreInBounds ==
    last.op = "read_image_series" =>
        /\ last.raised # "IndexError"
        /\ \A i \in 1..Len(last.reads) :
               LET rd == last.reads[i]
                   series == Disk[CallFile(last.args)][rd.series + 1]
               IN  PlaneExists(series, rd.c, rd.z, rd.t) =>
                       /\ rd.c < SelectedCount(last.args.c, series.size.C)
                       /\ rd.z < SelectedCount(last.args.z, series.size.Z)
                       /\ rd.t < SelectedCount(last.args.t, series.size.T)

(***************************************************************************)
(* stats.slope(tr), called with sigma = None: Init draws the trace, Slope  *)
(* applies the function.  The values of a trace are whole numbers, held    *)
(* exactly as floats; the result is the fraction num/den, or nan.          *)
(***************************************************************************)
Abs(x) == IF x < 0 THEN -x ELSE x

\* np.argmin(tr) and np.argmax(tr): the index (0-based) of the first
\* occurrence of the smallest and of the largest value.
argmin(tr) ==
    (CHOOSE i \in 1..Len(tr) :
        /\ \A j \in 1..Len(tr) : tr[i] <= tr[j]
        /\ \A j \in 1..(i - 1) : tr[j] # tr[i]) - 1

argmax(tr) ==
    (CHOOSE i \in 1..Len(tr) :
        /\ \A j \in 1..Len(tr) : tr[i] >= tr[j]
        /\ \A j \in 1..(i - 1) : tr[j] # tr[i]) - 1

NoFloat == [kind |-> "none", num |-> 0, den |-> 1]

\* numpy's x / y for a float64 x and an integer y: with y = 0 the result
\* is nan for x = 0 and an infinity otherwise (a warning, no exception).
NpDivide(x, y) ==
    IF y # 0 THEN [kind |-> "float", num |-> x, den |-> y]
    ELSE IF x = 0 THEN [kind |-> "nan", num |-> 0, den |-> 0]
    ELSE [kind |-> "inf", num |-> x, den |-> 0]

\* np.abs of a quotient
NpAbs(q) == [q EXCEPT !.num = Abs(q.num), !.den = Abs(q.den)]

slope(tr) ==
    IF tr = <<>> THEN [raised |-> "ValueError", a |-> NoFloat]
    ELSE LET q == NpDivide(PyIndex(tr, argmin(tr)) - PyIndex(tr, argmax(tr)),
                           argmin(tr) - argmax(tr))
         IN  [raised |-> "none", a |-> NpAbs(q)]

Traces == SeqsUpTo(0..MaxVal, MaxTraceLen)

InitSlope ==
    /\ SessionIdle
    /\ last \in {[op |-> "call", fn |-> "slope", tr |-> tr] : tr \in Traces}

Slope ==
    /\ last.op = "call"
    /\ last.fn = "slope"
    /\ LET r == slope(last.tr)
       IN  last' = [op |-> "return", fn |-> "slope", tr |-> last.tr,
                    raised |-> r.raised, a |-> r.a]
    /\ UNCHANGED <<VM_STARTED, VM_KILLED, doneCalled, rdr>>

SpecSlope == InitSlope /\ [][Slope]_vars

\* C14: slope(trace) fails with a division-by-zero error, and gives no nan
\* and no infinity, whenever the index of the minimum equals the index of
\* the maximum; and for every trace of two or more values the two indices
\* differ.
C14_SlopeDegenerate ==
    (Returned("slope") /\ Len(last.tr) >= 1) =>
        /\ argmin(last.tr) = argmax(last.tr) =>
               /\ last.raised = "ZeroDivisionError"
               /\ last.a.kind \notin {"nan", "inf"}
        /\ Len(last.tr) >= 2 => argmin(last.tr) # argmax(last.tr)

(***************************************************************************)
(* The collapse of Z in traces_dict, images.sum(axis=1, dtype=np.uint16),  *)
(* on its own: Init draws the pixel type of the series and the values of   *)
(* one pixel over the Z planes of a stack, CollapseZ applies the sum.  The *)
(* sum is elementwise, so one pixel stands for every pixel of the image.   *)
(***************************************************************************)
\* The width of np.uint16.
UINT16 == 2 ^ 16

\* Values a pixel of the given bioformats pixel type can hold: the ends of
\* the range of its BF2NP_DTYPE and values between.
PixelValues(pixelType) ==
    CASE pixelType = 1 -> {0, 1, 200, 255}
      [] pixelType = 3 -> {0, 1, 40000, 65535}

\* The unsigned pixel types up to 16 bits: np.uint8 and np.uint16.
PixelTypes == {1, 3}

\* ndarray.sum(dtype=np.uint16): the values are cast to uint16 and added
\* in uint16.
RECURSIVE SumUint16(_)
SumUint16(column) ==
    IF column = <<>> THEN 0
    ELSE ((Head(column) % UINT16) + SumUint16(Tail(column))) % UINT16

RECURSIVE ExactSum(_)
ExactSum(column) ==
    IF column = <<>> THEN 0 ELSE Head(column) + ExactSum(Tail(column))

InitCollapse ==
    /\ SessionIdle
    /\ last \in {[op |-> "call", fn |-> "sum", pixelType |-> p,
                  column |-> col] :
                     p \in PixelTypes,
                     col \in UNION {SeqsUpTo(PixelValues(q), MaxZ) \ {<<>>} :
                                        q \in PixelTypes}}
    /\ \A z \in 1..Len(last.column) :
           last.column[z] \in PixelValues(last.pixelType)

CollapseZ ==
    /\ last.op = "call"
    /\ last.fn = "sum"
    /\ last' = [op |-> "return", fn |-> "sum", pixelType |-> last.pixelType,
                column |-> last.column, value |-> SumUint16(last.column)]
    /\ UNCHANGED <<VM_STARTED, VM_KILLED, doneCalled, rdr>>

SpecCollapse == InitCollapse /\ [][CollapseZ]_vars

\* C13: collapsing Z never truncates: for every stack of a pixel type up
\* to unsigned 16-bit, each pixel of the collapsed image is the exact
\* integer sum of that pixel over the Z planes, with no wraparound modulo
\* 2^16.
C13_SumExact ==
    Returned("sum") => last.value = ExactSum(last.column)

(***************************************************************************)
(* process.traces_dict(fin, series, chan) and process._times(names).       *)
(* Init draws the session state, the names of the series the file holds    *)
(* and the selection; TracesDict applies the function.  The outcome        *)
(* records the locals of the function as they are when it ends: the        *)
(* parsed positions and times and the index and columns of the statistics  *)
(* table.                                                                  *)
(***************************************************************************)
all_stat_names == <<"min_max", "slope", "missing">>

\* The default of the argument interval of parse_series_name: 0.5.
DEFAULT_INTERVAL == Unit \div 2

\* np.unique(x): the distinct values, ascending.
RECURSIVE SortedSeq(_)
SortedSeq(S) ==
    IF S = {} THEN <<>>
    ELSE LET least == CHOOSE x \in S : \A y \in S : x <= y
         IN  <<least>> \o SortedSeq(S \ {least})

NpUnique(seq) == SortedSeq(Elems(seq))

\* np.unique(x, return_index=True)[1]: for each distinct value, ascending,
\* the index of its first occurrence in x.
UniqueIndices(seq) ==
    LET u == NpUnique(seq)
    IN  [k \in 1..Len(u) |->
            (CHOOSE i \in 1..Len(seq) :
                /\ seq[i] = u[k]
                /\ \A j \in 1..(i - 1) : seq[j] # u[k]) - 1]

\* np.concatenate
RECURSIVE Concatenate(_)
Concatenate(arrays) ==
    IF arrays = <<>> THEN <<>>
    ELSE Head(arrays) \o Concatenate(Tail(arrays))

NoParse == [raised |-> "none", positions |-> <<>>, times |-> <<>>]

ParsedCons(p, rest) ==
    IF p.raised # "none" THEN [NoParse EXCEPT !.raised = p.raised]
    ELSE IF rest.raised # "none" THEN rest
    ELSE [raised |-> "none", positions |-> <<p.embryo>> \o rest.positions,
          times |-> <<p.times>> \o rest.times]

\* positions, times = zip(*map(lifio.parse_series_name, names)): the first
\* name that does not parse raises; no name at all leaves nothing to
\* unpack.
RECURSIVE ParseAll(_)
ParseAll(names) ==
    IF names = <<>> THEN NoParse
    ELSE ParsedCons(parse_series_name(Head(names), DEFAULT_INTERVAL),
                    ParseAll(Tail(names)))

ZipParsed(names) ==
    IF names = <<>> THEN [NoParse EXCEPT !.raised = "ValueError"]
    ELSE ParseAll(names)

TimesOfParsed(parsed) ==
    IF parsed.raised # "none" THEN [raised |-> parsed.raised, v |-> <<>>]
    ELSE IF \E i \in 1..Len(parsed.times) : parsed.times[i] = <<>>
    THEN [raised |-> "IndexError", v |-> <<>>]
    ELSE LET start_times == [i \in 1..Len(parsed.times) |->
                                 parsed.times[i][1]]
             indices == UniqueIndices(start_times)
         IN  [raised |-> "none",
              v |-> NpUnique(Concatenate(
                        [k \in 1..Len(indices) |->
                            PyIndex(parsed.times, indices[k])]))]

\* _times(names)
times(names) == TimesOfParsed(ZipParsed(names))

\* names, sizes, resolutions = lifio.metadata(fin), for a file whose
\* series have the names file_names.
FileMetadata(vm, file_names) ==
    LET vm1 == IF ~vm.VM_STARTED THEN start(vm) ELSE vm IN
    IF vm1.VM_KILLED
    THEN [vm |-> vm1, raised |-> "RuntimeError", names |-> <<>>]
    ELSE [vm |-> vm1, raised |-> "none", names |-> file_names]

\* [x[i] for i in series], series being range(len(names)) when it is None.
SelectSeries(names, series) ==
    LET sel == IF series.kind = "none" THEN Range(Len(names)) ELSE series.v
    IN  IF \E i \in 1..Len(sel) : sel[i] >= Len(names) \/ sel[i] < -Len(names)
        THEN [raised |-> "IndexError", v |-> <<>>]
        ELSE [raised |-> "none",
              v |-> [i \in 1..Len(sel) |-> PyIndex(names, sel[i])]]

NoTable == [allocated |-> FALSE, shape |-> <<0, 0>>, index |-> <<>>,
            columns |-> <<>>]

\* traces_dict ends with the exception exc before the table exists.
TracesFail(vm, exc) ==
    [vm |-> vm, raised |-> exc, names |-> <<>>, positions |-> <<>>,
     times |-> <<>>, statistics |-> NoTable]

\* it.product(positions, all_stat_names)
Columns(positions) == Product(<<positions, all_stat_names>>)

\* The statistics table: np.empty((ntimes, npositions * nstats)) with
\* index all_times and the product as columns.  Then the call
\* lifio.series_iterator(rdr, series, desired_order='tzcyx', c=chan) hands
\* two positional arguments to series_iterator(filelike, **kwargs), which
\* is a TypeError, so the loop over the series is never entered.
TracesTable(vm, names, all_times, parsed) ==
    IF all_times.raised # "none" THEN TracesFail(vm, all_times.raised)
    ELSE IF parsed.raised # "none" THEN TracesFail(vm, parsed.raised)
    ELSE LET ntimes == Len(all_times.v)
             npositions == Len(parsed.positions)
             nstats == Len(all_stat_names)
         IN  [vm |-> vm, raised |-> "TypeError", names |-> names,
              positions |-> parsed.positions, times |-> parsed.times,
              statistics |->
                  [allocated |-> TRUE,
                   shape |-> <<ntimes, npositions * nstats>>,
                   index |-> all_times.v,
                   columns |-> Columns(parsed.positions)]]

traces_dict(vm, fin, file_names, series, chan) ==
    LET md == FileMetadata(vm, file_names) IN
    IF md.raised # "none" THEN TracesFail(md.vm, md.raised)
    ELSE
    LET names == SelectSeries(md.names, series) IN
    IF names.raised # "none" THEN TracesFail(md.vm, names.raised)
    ELSE
    LET ir == image_reader(md.vm, PathOf(fin)) IN
    IF ir.raised # "none" THEN TracesFail(ir.vm, ir.raised)
    ELSE TracesTable(ir.vm, names.v, times(names.v), ZipParsed(names.v))

\* Names of series: two positions, two time ranges that start at 1h.
NAME_C0 == <<"1", "h", " ", "t", "o", " ", "2", "h", " ", "p", "S", "C", "I", "/", "P", "o", "s", "2", "_", "S", "1">>
NAME_C1 == <<"1", "h", " ", "t", "o", " ", "3", "h", " ", "p", "S", "C", "I", "/", "P", "o", "s", "2", "_", "S", "2">>
NAME_BAD == <<"S", "e", "r", "i", "e", "s", "0", "1", "6">>

TraceNames == {NAME_A0, NAME_A1, NAME_B0, NAME_C0, NAME_C1}

\* The files: up to MaxSeries series with names that parse, and one file
\* with a name that does not.
TraceFiles ==
    SeqsUpTo(TraceNames, MaxSeries) \cup {<<NAME_A0, NAME_BAD>>}

\* The argument series: None, or a list of up to two series numbers.
SeriesLists ==
    {SelNone} \cup {SelList(l) : l \in SeqsUpTo(0..(MaxSeries - 1), 2)}

InitTraces ==
    /\ VM_STARTED \in BOOLEAN
    /\ VM_KILLED \in BOOLEAN
    /\ doneCalled = VM_KILLED
    /\ rdr = NoReader
    /\ last \in {[op |-> "call", fn |-> "traces_dict", fin |-> "f",
                  file_names |-> f, series |-> sl, chan |-> ch] :
                     f \in TraceFiles, sl \in SeriesLists, ch \in {0, 1}}

TracesDictOutcome(args, r) ==
    /\ VM_STARTED' = r.vm.VM_STARTED
    /\ VM_KILLED' = r.vm.VM_KILLED
    /\ last' = [op |-> "return", fn |-> "traces_dict", args |-> args,
                raised |-> r.raised, names |-> r.names,
                positions |-> r.positions, times |-> r.times,
                statistics |-> r.statistics]
    /\ UNCHANGED <<doneCalled, rdr>>

TracesDict ==
    /\ last.op = "call"
    /\ last.fn = "traces_dict"
    /\ TracesDictOutcome(last,
           traces_dict(Vm, last.fin, last.file_names, last.series,
                       last.chan))

SpecTraces == InitTraces /\ [][TracesDict]_vars

\* The statistics table of a call that got as far as allocating it.
TableAllocated == Returned("traces_dict") /\ last.statistics.allocated

\* C11: the columns of the statistics table are exactly the cartesian
\* product of the distinct positions among the selected series and
\* {min_max, slope, missing}: (number of distinct positions) x 3 columns
\* and no column label twice, also when several series share a position.
C11_ColumnsProduct ==
    TableAllocated =>
        LET distinct == Elems(last.positions)
            columns == last.statistics.columns
        IN  /\ Len(columns) = Cardinality(distinct) * 3
            /\ last.statistics.shape[2] = Cardinality(distinct) * 3
            /\ NoRepeats(columns)
            /\ Elems(columns) = distinct \X Elems(all_stat_names)

\* C12: the row index of the statistics table is strictly ascending and
\* holds every timepoint of every selected series, also when two series
\* share a first timepoint but have different timepoint lists.
C12_IndexComplete ==
    TableAllocated =>
        LET index == last.statistics.index IN
        /\ \A i \in 1..(Len(index) - 1) : index[i] < index[i + 1]
        /\ \A i \in 1..Len(last.times) :
               Elems(last.times[i]) \subseteq Elems(index)

=============================================================================
